---- MODULE Spec2Model ----
(***************************************************************************)
(* A model of the PDF page merger: the App component's state (files,       *)
(* allPages, isLoading), its handlers (handleFileUpload, movePage,         *)
(* removePage, clearAll, handleDownload) and the two service functions     *)
(* loadPdfAndGetPreviews and mergeAndDownloadPdf.                          *)
(*                                                                         *)
(* An asynchronous handler is cut at its awaits: the part before the first *)
(* await is one action, each later resumption is another.  Everything a    *)
(* handler does between two awaits happens in one step (JavaScript runs    *)
(* it to completion, and React applies the state updates of one such       *)
(* stretch together).                                                      *)
(***************************************************************************)
EXTENDS Integers, Sequences, FiniteSets, Bags, TLC

(***************************************************************************)
(* Bounds of the model.                                                    *)
(***************************************************************************)
\* Handler calls (uploads, exports, moves, removals, clears) in one behaviour.
MaxCalls == 4
\* movePage / removePage calls among them.
MaxEdits == 2
\* Length allPages may grow to through uploads.
MaxPages == 5
\* Length of the page lists the page-list operations are started from in
\* SpecOps.
MaxLen == 3
\* Length of the file names mergeAndDownloadPdf is called with in SpecName.
MaxNameLen == 5
\* Calls of loadPdfAndGetPreviews followed page by page in SpecRender.
MaxLoads == 2

(***************************************************************************)
(* The File objects a user can pick.  A File is known to the program by    *)
(* its name, size and MIME type and by what the two PDF libraries make of  *)
(* its bytes.                                                              *)
(*   A  a.pdf, 3 pages            B  b.pdf, 2 pages                        *)
(*   C  another file that is also called a.pdf and has A's size, 2 pages   *)
(*   X  x.pdf, bytes that are no PDF                                       *)
(*   T  t.txt, a text file                                                 *)
(*   N  n.pdf, 2 pages; the canvas made for its page 1 gives no 2d context *)
(*   R  r.pdf, 2 pages; rendering its page 2 throws                        *)
(*   E  e.pdf, 1 page, encrypted with an empty user password: pdf.js opens *)
(*      it, PDFDocument.load of pdf-lib rejects it                         *)
(***************************************************************************)
AllFiles == {"A", "B", "C", "X", "T", "N", "R", "E"}

FileName(f) ==
    CASE f = "A" -> "a.pdf"
      [] f = "B" -> "b.pdf"
      [] f = "C" -> "a.pdf"
      [] f = "X" -> "x.pdf"
      [] f = "T" -> "t.txt"
      [] f = "N" -> "n.pdf"
      [] f = "R" -> "r.pdf"
      [] f = "E" -> "e.pdf"

FileSize(f) ==
    CASE f = "A" -> 10
      [] f = "B" -> 20
      [] f = "C" -> 10
      [] f = "X" -> 30
      [] f = "T" -> 40
      [] f = "N" -> 50
      [] f = "R" -> 60
      [] f = "E" -> 70

FileType(f) == IF f = "T" THEN "text/plain" ELSE "application/pdf"

\* Whether the bytes of f are a PDF document, which pdfjsLib.getDocument opens.
IsPdfDocument(f) == f \in {"A", "B", "C", "N", "R", "E"}

\* Whether PDFDocument.load of pdf-lib accepts the bytes of f.
LibLoads(f) == IsPdfDocument(f) /\ f # "E"

\* pdf.numPages of the decoded document.
NumPages(f) ==
    CASE f = "A" -> 3
      [] f \in {"B", "C", "N", "R"} -> 2
      [] f = "E" -> 1
      [] OTHER -> 0

\* What happens to page i (1-based) of f in the preview loop: "ok", the render
\* promise rejects ("throw"), or canvas.getContext('2d') returns null
\* ("nocontext").
RenderOutcome(f, i) ==
    CASE f = "N" /\ i = 1 -> "nocontext"
      [] f = "R" /\ i = 2 -> "throw"
      [] OTHER -> "ok"

\* The files on the user's disk in one behaviour.
Disks ==
    {{"A", "B"}, {"A", "C"}, {"X", "B"}, {"T", "N"}, {"R", "B"}, {"E", "T"}}

(***************************************************************************)
(* Values.                                                                 *)
(***************************************************************************)
\* The preview of page i of file f (a data URL in the code).
PreviewOf(f, i) == <<f, i>>

\* The content of the page with 0-based index k of document f.
PageContent(f, k) == <<f, k>>

\* A PDFPage (types.ts).
PDFPage(fileId, index, previewUrl, name) ==
    [id |-> <<fileId, index>>, sourceFileId |-> fileId, pageIndex |-> index,
     previewUrl |-> previewUrl, originalFileName |-> name]

\* A PDFFile (types.ts).
PDFFile(fileId, f, pageCount) ==
    [id |-> fileId, name |-> FileName(f), file |-> f, pageCount |-> pageCount]

\* JavaScript's undefined as an element of the allPages array.
Undefined ==
    [id |-> <<0, 0>>, sourceFileId |-> 0, pageIndex |-> 0 - 1,
     previewUrl |-> <<"", 0>>, originalFileName |-> ""]

(***************************************************************************)
(* services/pdfService.ts                                                  *)
(***************************************************************************)
RECURSIVE RenderLoop(_, _, _)
\* The for loop of loadPdfAndGetPreviews from page i on, previews being the
\* previews pushed so far.  A page whose canvas has no 2d context is skipped:
\* nothing is pushed for it.
RenderLoop(f, i, previews) ==
    IF i > NumPages(f)
    THEN [threw |-> FALSE, previews |-> previews]
    ELSE CASE RenderOutcome(f, i) = "throw" ->
                [threw |-> TRUE, previews |-> previews]
           [] RenderOutcome(f, i) = "nocontext" ->
                RenderLoop(f, i + 1, previews)
           [] OTHER ->
                RenderLoop(f, i + 1, Append(previews, PreviewOf(f, i)))

\* loadPdfAndGetPreviews(file): { pageCount, previews }, or the error rethrown
\* by its catch block.
loadPdfAndGetPreviews(f) ==
    IF ~IsPdfDocument(f)
    THEN [threw |-> TRUE, pageCount |-> 0, previews |-> <<>>]
    ELSE LET r == RenderLoop(f, 1, <<>>)
         IN  [threw |-> r.threw, pageCount |-> NumPages(f),
              previews |-> r.previews]

\* The cache key of mergeAndDownloadPdf: `${name}-${size}`.
FileKey(f) == <<FileName(f), FileSize(f)>>

\* sourcePdfCache.get(key): the cache is the sequence of the files decoded so
\* far, each stored under its own key.
CacheHas(cache, key) == \E j \in 1..Len(cache) : FileKey(cache[j]) = key

CacheGet(cache, key) ==
    cache[CHOOSE j \in 1..Len(cache) : FileKey(cache[j]) = key]

\* The loop body without the cache lookup: every item loads its source anew.
MergeItemNoCache(item, cache, merged) ==
    LET loadOk == LibLoads(item.sourceFile)
        doc    == item.sourceFile
        cache2 == Append(cache, item.sourceFile)
        copyOk == item.pageIndex >= 0 /\ item.pageIndex < NumPages(doc)
    IN  IF ~loadOk
        THEN [threw |-> TRUE, cache |-> cache, merged |-> merged]
        ELSE IF ~copyOk
        THEN [threw |-> TRUE, cache |-> cache2, merged |-> merged]
        ELSE [threw |-> FALSE, cache |-> cache2,
              merged |-> Append(merged, PageContent(doc, item.pageIndex))]

\* One iteration of the for loop of mergeAndDownloadPdf, on item, with the
\* cache and the merged document (the contents of its pages) so far.
MergeItem(item, cache, merged) ==
    LET key    == FileKey(item.sourceFile)
        hit    == CacheHas(cache, key)
        \* PDFDocument.load(bytes) rejects what pdf-lib cannot open
        loadOk == hit \/ LibLoads(item.sourceFile)
        doc    == IF hit THEN CacheGet(cache, key) ELSE item.sourceFile
        cache2 == IF hit THEN cache ELSE Append(cache, item.sourceFile)
        \* copyPages rejects an index that is no page of sourceDoc
        copyOk == item.pageIndex >= 0 /\ item.pageIndex < NumPages(doc)
    IN  IF ~loadOk
        THEN [threw |-> TRUE, cache |-> cache, merged |-> merged]
        ELSE IF ~copyOk
        THEN [threw |-> TRUE, cache |-> cache2, merged |-> merged]
        ELSE [threw |-> FALSE, cache |-> cache2,
              merged |-> Append(merged, PageContent(doc, item.pageIndex))]

RECURSIVE MergeLoop(_, _, _, _, _)
\* The loop of mergeAndDownloadPdf over the items k..n of pages.
MergeLoop(pages, k, n, cache, merged) ==
    IF k > n
    THEN [threw |-> FALSE, cache |-> cache, merged |-> merged]
    ELSE LET r == MergeItem(pages[k], cache, merged)
         IN  IF r.threw THEN r
             ELSE MergeLoop(pages, k + 1, n, r.cache, r.merged)

(***************************************************************************)
(* The pure parts of the App component's handlers.                         *)
(***************************************************************************)
\* The forEach with pageIndex: index + 1.
PagesOfPreviewsOneBased(fileId, f, previews) ==
    [j \in 1..Len(previews) |->
        PDFPage(fileId, j, previews[j], FileName(f))]

\* previews.forEach((previewUrl, index) => newPages.push({...}))
PagesOfPreviews(fileId, f, previews) ==
    [j \in 1..Len(previews) |->
        PDFPage(fileId, j - 1, previews[j], FileName(f))]

RECURSIVE UploadLoop(_, _, _, _, _)
\* The for loop of handleFileUpload from the k-th selected file on.  id is the
\* next file id Math.random() yields (modelled as an id never used before).
UploadLoop(selected, k, id, newFiles, newPages) ==
    IF k > Len(selected)
    THEN [threw |-> FALSE, newFiles |-> newFiles, newPages |-> newPages,
          id |-> id]
    ELSE LET file == selected[k]
             r    == loadPdfAndGetPreviews(file)
         IN  IF FileType(file) # "application/pdf"
             THEN UploadLoop(selected, k + 1, id, newFiles, newPages)
             ELSE IF r.threw
             THEN [threw |-> TRUE, newFiles |-> newFiles,
                   newPages |-> newPages, id |-> id]
             ELSE UploadLoop(selected, k + 1, id + 1,
                      Append(newFiles, PDFFile(id, file, r.pageCount)),
                      newPages \o PagesOfPreviews(id, file, r.previews))

\* a[j] for a 0-based index j: undefined outside the array.
ArrayGet(a, j) == IF j >= 0 /\ j < Len(a) THEN a[j + 1] ELSE Undefined

\* a[j] = v for a 0-based index j: an index past the end lengthens the array
\* (the slots in between read as undefined), a negative index sets a property
\* that is no element.
ArraySet(a, j, v) ==
    IF j < 0 THEN a
    ELSE IF j < Len(a) THEN [a EXCEPT ![j + 1] = v]
    ELSE a \o [x \in 1..(j - Len(a)) |-> Undefined] \o <<v>>

\* movePage with the assignment newPages[index] = newPages[targetIndex] in
\* place of the swap.
MovePagesNoSwap(pages, index, direction) ==
    LET targetIndex == IF direction = "left" THEN index - 1 ELSE index + 1
    IN  IF targetIndex < 0 \/ targetIndex >= Len(pages)
        THEN pages
        ELSE ArraySet(pages, index, ArrayGet(pages, targetIndex))

\* movePage with the bounds test targetIndex > newPages.length.
MovePagesOffByOne(pages, index, direction) ==
    LET targetIndex == IF direction = "left" THEN index - 1 ELSE index + 1
        atIndex     == ArrayGet(pages, index)
        atTarget    == ArrayGet(pages, targetIndex)
    IN  IF targetIndex < 0 \/ targetIndex > Len(pages)
        THEN pages
        ELSE ArraySet(ArraySet(pages, index, atTarget), targetIndex, atIndex)

\* The array movePage passes to setAllPages, or pages itself when it returns
\* early.
MovePages(pages, index, direction) ==
    LET targetIndex == IF direction = "left" THEN index - 1 ELSE index + 1
        atIndex     == ArrayGet(pages, index)
        atTarget    == ArrayGet(pages, targetIndex)
    IN  IF targetIndex < 0 \/ targetIndex >= Len(pages)
        THEN pages
        ELSE ArraySet(ArraySet(pages, index, atTarget), targetIndex, atIndex)

RECURSIVE FilterIndex(_, _, _)
\* prev.filter((_, i) => i !== index), from the 0-based position i on.
FilterIndex(prev, index, i) ==
    IF i >= Len(prev) THEN <<>>
    ELSE (IF i # index THEN <<prev[i + 1]>> ELSE <<>>)
         \o FilterIndex(prev, index, i + 1)

\* removePage with the filter i < index.
RemovePagesTruncates(prev, index) ==
    IF index < 0 THEN <<>>
    ELSE SubSeq(prev, 1, IF index < Len(prev) THEN index ELSE Len(prev))

RemovePages(prev, index) == FilterIndex(prev, index, 0)

\* files.find(f => f.id === id)
HasFile(fs, id) == \E j \in 1..Len(fs) : fs[j].id = id

FindFile(fs, id) == fs[CHOOSE j \in 1..Len(fs) : fs[j].id = id /\
                        \A h \in 1..(j - 1) : fs[h].id # id]

\* The allPages.map of handleDownload: it throws on a page whose source file
\* is not in files (and on an undefined slot, whose property cannot be read).
PagesToProcess(pages, fs) ==
    IF \E j \in 1..Len(pages) :
           pages[j] = Undefined \/ ~HasFile(fs, pages[j].sourceFileId)
    THEN [threw |-> TRUE, pages |-> <<>>]
    ELSE [threw |-> FALSE,
          pages |-> [j \in 1..Len(pages) |->
                       [sourceFile |-> FindFile(fs, pages[j].sourceFileId).file,
                        pageIndex  |-> pages[j].pageIndex]]]

(***************************************************************************)
(* The name of the download.  A name is a sequence of characters.          *)
(***************************************************************************)
DotPdf == <<".", "p", "d", "f">>

\* The name handleDownload passes: 'merged_document.pdf'.
ExportFileName ==
    <<"m", "e", "r", "g", "e", "d", "_", "d", "o", "c", "u", "m", "e", "n",
      "t">> \o DotPdf

\* The characters file names are made of, and their lower case.
NameChars == {"x", ".", "p", "d", "f", "P"}

LowerChar(c) ==
    CASE c = "P" -> "p"
      [] c = "D" -> "d"
      [] c = "F" -> "f"
      [] OTHER -> c

toLowerCase(name) == [j \in 1..Len(name) |-> LowerChar(name[j])]

endsWith(name, suffix) ==
    /\ Len(name) >= Len(suffix)
    /\ SubSeq(name, Len(name) - Len(suffix) + 1, Len(name)) = suffix

\* link.download with the suffix compared as written, without toLowerCase.
DownloadNameCaseSensitive(fileName) ==
    IF endsWith(fileName, DotPdf)
    THEN fileName
    ELSE fileName \o DotPdf

\* link.download
DownloadName(fileName) ==
    IF endsWith(toLowerCase(fileName), DotPdf)
    THEN fileName
    ELSE fileName \o DotPdf

(***************************************************************************)
(* State.                                                                  *)
(***************************************************************************)
VARIABLES
    disk,            \* the files the user can pick
    files,           \* useState<PDFFile[]>
    allPages,        \* useState<PDFPage[]>
    isLoading,       \* useState(false)
    nextId,          \* the next unused file id
    uploads,         \* the handleFileUpload calls in flight: a bag of selections
    exports,         \* the handleDownload calls in flight: a bag of merge states
    download,        \* the last download link clicked
    alertMsg,        \* the last alert shown
    lastOp,          \* the last movePage / removePage call and allPages before it
    prevOp,          \* the call before lastOp, when nothing else came between
    edits,           \* movePage / removePage calls so far
    calls,           \* handler calls so far
    loads            \* the loadPdfAndGetPreviews calls SpecRender follows

vars == <<disk, files, allPages, isLoading, nextId, uploads, exports, download,
          alertMsg, lastOp, prevOp, edits, calls, loads>>

NoDownload ==
    [clicked |-> FALSE, name |-> <<>>, fileName |-> <<>>, pages |-> <<>>,
     items |-> <<>>, snapPages |-> <<>>, snapFiles |-> <<>>, changed |-> FALSE]

NoOp ==
    [op |-> "none", index |-> 0, direction |-> "none", before |-> <<>>,
     threw |-> FALSE]

\* What the user can select in the file picker: one or more files, each once.
Selections(d) ==
    {<<a>> : a \in d} \cup {<<a, b>> : <<a, b>> \in {t \in d \X d : t[1] # t[2]}}

RECURSIVE SumPages(_, _)
\* The pages the files of a selection hold from position k on.
SumPages(selected, k) ==
    IF k > Len(selected) THEN 0
    ELSE NumPages(selected[k]) + SumPages(selected, k + 1)

\* The pages the uploads in flight may still add.
PendingPages ==
    LET S == BagToSet(uploads)
        RECURSIVE Sum(_)
        Sum(T) == IF T = {} THEN 0
                  ELSE LET s == CHOOSE x \in T : TRUE
                       IN  CopiesIn(s, uploads) * SumPages(s, 1)
                           + Sum(T \ {s})
    IN  Sum(S)

Init ==
    /\ disk \in Disks
    /\ files = <<>>
    /\ allPages = <<>>
    /\ isLoading = FALSE
    /\ nextId = 1
    /\ uploads = EmptyBag
    /\ exports = EmptyBag
    /\ download = NoDownload
    /\ alertMsg = ""
    /\ lastOp = NoOp
    /\ prevOp = NoOp
    /\ edits = 0
    /\ calls = 0
    /\ loads = <<>>

(***************************************************************************)
(* handleFileUpload                                                        *)
(***************************************************************************)
\* Which control opens the file picker: "Add PDFs" (disabled while isLoading),
\* "Choose Files" (shown while allPages is empty, never disabled) or "Add
\* more" (shown while allPages is not empty, never disabled).  The loading
\* overlay is drawn over them but disables none of them, and handleFileUpload
\* itself does not look at isLoading.
CanOpenPicker ==
    \/ ~isLoading
    \/ allPages = <<>>
    \/ allPages # <<>>

\* The change event of the file input, up to the first await.  With no PDF
\* among the selected files the loop awaits nothing and the handler runs to
\* its end at once.
handleFileUpload(selected) ==
    /\ CanOpenPicker
    /\ calls < MaxCalls
    /\ Len(allPages) + PendingPages + SumPages(selected, 1) <= MaxPages
    /\ calls' = calls + 1
    /\ IF \A k \in 1..Len(selected) : FileType(selected[k]) # "application/pdf"
       THEN /\ isLoading' = FALSE
            /\ UNCHANGED uploads
       ELSE /\ isLoading' = TRUE
            /\ uploads' = uploads (+) SetToBag({selected})
    /\ UNCHANGED <<disk, loads, files, allPages, nextId, exports, download, alertMsg,
                   lastOp, prevOp, edits>>

\* The rest of handleFileUpload without setIsLoading(false) in its finally
\* block.
handleFileUploadDoneStaysBusy(selected) ==
    /\ BagIn(selected, uploads)
    /\ LET r == UploadLoop(selected, 1, nextId, <<>>, <<>>)
       IN  /\ nextId' = r.id
           /\ IF r.threw
              THEN /\ alertMsg' = "There was an error processing your PDF files."
                   /\ UNCHANGED <<files, allPages>>
              ELSE /\ files' = files \o r.newFiles
                   /\ allPages' = allPages \o r.newPages
                   /\ UNCHANGED alertMsg
    /\ uploads' = uploads (-) SetToBag({selected})
    /\ lastOp' = NoOp
    /\ prevOp' = NoOp
    /\ UNCHANGED <<disk, loads, isLoading, exports, download, edits, calls>>

\* The rest of handleFileUpload: the loop over the selected files, then the two
\* state updates, or the catch block; and the finally block.
handleFileUploadDone(selected) ==
    /\ BagIn(selected, uploads)
    /\ LET r == UploadLoop(selected, 1, nextId, <<>>, <<>>)
       IN  /\ nextId' = r.id
           /\ IF r.threw
              THEN /\ alertMsg' = "There was an error processing your PDF files."
                   /\ UNCHANGED <<files, allPages>>
              ELSE /\ files' = files \o r.newFiles
                   /\ allPages' = allPages \o r.newPages
                   /\ UNCHANGED alertMsg
    /\ isLoading' = FALSE
    /\ uploads' = uploads (-) SetToBag({selected})
    /\ lastOp' = NoOp
    /\ prevOp' = NoOp
    /\ UNCHANGED <<disk, loads, exports, download, edits, calls>>

(***************************************************************************)
(* movePage, removePage, clearAll                                          *)
(***************************************************************************)
movePage(index, direction) ==
    /\ edits < MaxEdits
    /\ calls < MaxCalls
    /\ allPages' = MovePages(allPages, index, direction)
    /\ lastOp' = [op |-> "move", index |-> index, direction |-> direction,
                  before |-> allPages, threw |-> FALSE]
    /\ prevOp' = lastOp
    /\ edits' = edits + 1
    /\ calls' = calls + 1
    /\ UNCHANGED <<disk, loads, files, isLoading, nextId, uploads, exports, download,
                   alertMsg>>

removePage(index) ==
    /\ edits < MaxEdits
    /\ calls < MaxCalls
    /\ allPages' = RemovePages(allPages, index)
    /\ lastOp' = [op |-> "remove", index |-> index, direction |-> "none",
                  before |-> allPages, threw |-> FALSE]
    /\ prevOp' = lastOp
    /\ edits' = edits + 1
    /\ calls' = calls + 1
    /\ UNCHANGED <<disk, loads, files, isLoading, nextId, uploads, exports, download,
                   alertMsg>>

\* The arrow buttons of the page at index: the left one is disabled on the
\* first page, the right one on the last.
ClickMove(index, direction) ==
    /\ index \in 0..(Len(allPages) - 1)
    /\ ~(direction = "left" /\ index = 0)
    /\ ~(direction = "right" /\ index = Len(allPages) - 1)
    /\ movePage(index, direction)

\* The trash button of the page at index.
ClickRemove(index) ==
    /\ index \in 0..(Len(allPages) - 1)
    /\ removePage(index)

\* clearAll without setAllPages([]).
clearAllKeepsPages ==
    /\ allPages # <<>>
    /\ calls < MaxCalls
    /\ calls' = calls + 1
    /\ files' = <<>>
    /\ UNCHANGED <<disk, loads, allPages, isLoading, nextId, uploads, exports, download,
                   alertMsg, lastOp, prevOp, edits>>

\* "Clear All" (shown while allPages is not empty), confirmed.
clearAll ==
    /\ allPages # <<>>
    /\ calls < MaxCalls
    /\ calls' = calls + 1
    /\ files' = <<>>
    /\ allPages' = <<>>
    /\ lastOp' = NoOp
    /\ prevOp' = NoOp
    /\ UNCHANGED <<disk, loads, isLoading, nextId, uploads, exports, download, alertMsg,
                   edits>>

(***************************************************************************)
(* handleDownload and mergeAndDownloadPdf                                  *)
(***************************************************************************)
\* "Export PDF" (shown while allPages is not empty, disabled while isLoading):
\* handleDownload up to the first await of mergeAndDownloadPdf.  The merge
\* works on pagesToProcess, the array built here; snapPages and snapFiles
\* record the state it was built from.
handleDownload ==
    /\ allPages # <<>>
    /\ ~isLoading
    /\ calls < MaxCalls
    /\ calls' = calls + 1
    /\ LET r == PagesToProcess(allPages, files)
       IN  IF r.threw
           THEN /\ alertMsg' = "Failed to export PDF."
                /\ isLoading' = FALSE
                /\ UNCHANGED exports
           ELSE /\ isLoading' = TRUE
                /\ exports' = exports (+) SetToBag({
                       [pages |-> r.pages, fileName |-> ExportFileName,
                        pos |-> 1, cache |-> <<>>, merged |-> <<>>,
                        snapPages |-> allPages, snapFiles |-> files]})
                /\ UNCHANGED alertMsg
    /\ UNCHANGED <<disk, loads, files, allPages, nextId, uploads, download, lastOp,
                   prevOp, edits>>

\* mergeCopyPage reading its item from the allPages and files of the moment
\* instead of the array handleDownload built.
mergeCopyPageLive(e) ==
    /\ BagIn(e, exports)
    /\ e.pos <= Len(e.pages)
    /\ LET live == PagesToProcess(allPages, files)
           item == IF ~live.threw /\ e.pos <= Len(live.pages)
                   THEN live.pages[e.pos]
                   ELSE e.pages[e.pos]
           r    == MergeItem(item, e.cache, e.merged)
       IN  IF r.threw
           THEN /\ alertMsg' = "Failed to export PDF."
                /\ isLoading' = FALSE
                /\ exports' = exports (-) SetToBag({e})
           ELSE /\ exports' = (exports (-) SetToBag({e})) (+) SetToBag({
                       [e EXCEPT !.pos = e.pos + 1, !.cache = r.cache,
                                 !.merged = r.merged]})
                /\ UNCHANGED <<alertMsg, isLoading>>
    /\ UNCHANGED <<disk, loads, files, allPages, nextId, uploads, download, lastOp,
                   prevOp, edits, calls>>

\* One iteration of the loop of mergeAndDownloadPdf in the export e; an error
\* ends the export in the catch and finally blocks of handleDownload.
mergeCopyPage(e) ==
    /\ BagIn(e, exports)
    /\ e.pos <= Len(e.pages)
    /\ LET r == MergeItem(e.pages[e.pos], e.cache, e.merged)
       IN  IF r.threw
           THEN /\ alertMsg' = "Failed to export PDF."
                /\ isLoading' = FALSE
                /\ exports' = exports (-) SetToBag({e})
           ELSE /\ exports' = (exports (-) SetToBag({e})) (+) SetToBag({
                       [e EXCEPT !.pos = e.pos + 1, !.cache = r.cache,
                                 !.merged = r.merged]})
                /\ UNCHANGED <<alertMsg, isLoading>>
    /\ UNCHANGED <<disk, loads, files, allPages, nextId, uploads, download, lastOp,
                   prevOp, edits, calls>>

\* The end of mergeAndDownloadPdf with the link made and clicked before the
\* outcome of save() is known.
mergeSaveLinkFirst(e, saved) ==
    /\ BagIn(e, exports)
    /\ e.pos > Len(e.pages)
    /\ download' =
          [clicked |-> TRUE, name |-> DownloadName(e.fileName),
           fileName |-> e.fileName,
           pages |-> e.merged, items |-> e.pages,
           snapPages |-> e.snapPages, snapFiles |-> e.snapFiles,
           changed |-> (allPages # e.snapPages \/ files # e.snapFiles)]
    /\ IF saved
       THEN UNCHANGED alertMsg
       ELSE alertMsg' = "Failed to export PDF."
    /\ isLoading' = FALSE
    /\ exports' = exports (-) SetToBag({e})
    /\ UNCHANGED <<disk, loads, files, allPages, nextId, uploads, lastOp, prevOp,
                   edits, calls>>

\* After the loop: mergedPdf.save(), which may fail, then the download link
\* is made and clicked; and the finally block of handleDownload.
mergeSave(e, saved) ==
    /\ BagIn(e, exports)
    /\ e.pos > Len(e.pages)
    /\ IF saved
       THEN /\ download' =
                  [clicked |-> TRUE, name |-> DownloadName(e.fileName),
                   fileName |-> e.fileName,
                   pages |-> e.merged, items |-> e.pages,
                   snapPages |-> e.snapPages, snapFiles |-> e.snapFiles,
                   changed |-> (allPages # e.snapPages \/ files # e.snapFiles)]
            /\ UNCHANGED alertMsg
       ELSE /\ alertMsg' = "Failed to export PDF."
            /\ UNCHANGED download
    /\ isLoading' = FALSE
    /\ exports' = exports (-) SetToBag({e})
    /\ UNCHANGED <<disk, loads, files, allPages, nextId, uploads, lastOp, prevOp,
                   edits, calls>>

(***************************************************************************)
(* The application: every handler, called as the rendered controls allow.  *)
(***************************************************************************)
Directions == {"left", "right"}

Next ==
    \/ \E selected \in Selections(disk) : handleFileUpload(selected)
    \/ \E selected \in BagToSet(uploads) : handleFileUploadDone(selected)
    \/ \E index \in 0..(Len(allPages) - 1), direction \in Directions :
           ClickMove(index, direction)
    \/ \E index \in 0..(Len(allPages) - 1) : ClickRemove(index)
    \/ clearAll
    \/ handleDownload
    \/ \E e \in BagToSet(exports) : mergeCopyPage(e)
    \/ \E e \in BagToSet(exports), saved \in BOOLEAN : mergeSave(e, saved)

Spec == Init /\ [][Next]_vars

\* The application when the awaited calls return: a load in flight gets its
\* result from loadPdfAndGetPreviews, an export in flight gets on with its
\* next page or with save().
UploadReturns == \E selected \in BagToSet(uploads) : handleFileUploadDone(selected)

ExportReturns ==
    \E e \in BagToSet(exports) :
        mergeCopyPage(e) \/ \E saved \in BOOLEAN : mergeSave(e, saved)

\* The disks with a file whose load fails (R) and with one whose export
\* fails (E).
LiveDisks == {{"R", "B"}, {"E", "T"}}

InitLive == Init /\ disk \in LiveDisks

SpecLive ==
    InitLive /\ [][Next]_vars /\ WF_vars(UploadReturns) /\ WF_vars(ExportReturns)

(***************************************************************************)
(* The page-list operations on their own: movePage and removePage called   *)
(* with any index, on any list of pages the application can hold.          *)
(***************************************************************************)
\* The sequences without repetition of at most n elements of S.
Arrangements(S, n) ==
    UNION {{s \in [1..k -> S] : \A i, j \in 1..k : i # j => s[i] # s[j]} :
           k \in 0..n}

Range(s) == {s[j] : j \in 1..Len(s)}

InitOps ==
    /\ disk \in Disks
    /\ \E selected \in Selections(disk) :
          LET r == UploadLoop(selected, 1, 1, <<>>, <<>>)
          IN  /\ ~r.threw
              /\ files = r.newFiles
              /\ nextId = r.id
              /\ allPages \in Arrangements(Range(r.newPages), MaxLen)
    /\ isLoading = FALSE
    /\ uploads = EmptyBag
    /\ exports = EmptyBag
    /\ download = NoDownload
    /\ alertMsg = ""
    /\ lastOp = NoOp
    /\ prevOp = NoOp
    /\ edits = 0
    /\ calls = 0
    /\ loads = <<>>

NextOps ==
    \/ \E index \in (0 - 1)..(Len(allPages) + 1), direction \in Directions :
           movePage(index, direction)
    \/ \E index \in (0 - 1)..(Len(allPages) + 1) : removePage(index)

SpecOps == InitOps /\ [][NextOps]_vars

(***************************************************************************)
(* mergeAndDownloadPdf called with any file name: B is loaded, and the     *)
(* call handleDownload makes for its two pages is in flight with a         *)
(* fileName of at most MaxNameLen characters.                              *)
(***************************************************************************)
FileNames == UNION {[1..k -> NameChars] : k \in 0..MaxNameLen}

InitName ==
    /\ disk = {"A", "B"}
    /\ LET r == UploadLoop(<<"B">>, 1, 1, <<>>, <<>>)
       IN  /\ files = r.newFiles
           /\ nextId = r.id
           /\ allPages = r.newPages
           /\ \E fileName \in FileNames :
                 exports = SetToBag({
                     [pages |-> PagesToProcess(r.newPages, r.newFiles).pages,
                      fileName |-> fileName, pos |-> 1, cache |-> <<>>,
                      merged |-> <<>>, snapPages |-> r.newPages,
                      snapFiles |-> r.newFiles]})
    /\ isLoading = TRUE
    /\ uploads = EmptyBag
    /\ download = NoDownload
    /\ alertMsg = ""
    /\ lastOp = NoOp
    /\ prevOp = NoOp
    /\ edits = 0
    /\ calls = 1
    /\ loads = <<>>

NextName ==
    \/ \E e \in BagToSet(exports) : mergeCopyPage(e)
    \/ \E e \in BagToSet(exports), saved \in BOOLEAN : mergeSave(e, saved)

SpecName == InitName /\ [][NextName]_vars

(***************************************************************************)
(* loadPdfAndGetPreviews page by page.  Each call in loads is at a place   *)
(* pc of the function, with the loop variable i, the previews pushed so    *)
(* far and the pages holding render resources: a page holds them from the  *)
(* call of page.render() until page.cleanup().                             *)
(***************************************************************************)
InitRender ==
    /\ disk \in Disks
    /\ files = <<>>
    /\ allPages = <<>>
    /\ isLoading = FALSE
    /\ nextId = 1
    /\ uploads = EmptyBag
    /\ exports = EmptyBag
    /\ download = NoDownload
    /\ alertMsg = ""
    /\ lastOp = NoOp
    /\ prevOp = NoOp
    /\ edits = 0
    /\ calls = 0
    /\ loads = <<>>

AppUnchanged ==
    UNCHANGED <<disk, files, allPages, isLoading, nextId, uploads, exports,
                download, alertMsg, lastOp, prevOp, edits, calls>>

\* The call loadPdfAndGetPreviews(f) up to the end of getDocument, which
\* rejects what is no PDF document.
getDocument(f) ==
    /\ Len(loads) < MaxLoads
    /\ loads' = Append(loads,
          [file |-> f, pc |-> IF IsPdfDocument(f) THEN "getPage" ELSE "threw",
           i |-> 1, previews |-> <<>>, held |-> {}])
    /\ AppUnchanged

\* The loop at page i in place of pageCleanup: cleanup is not called.
pageCleanupSkipped(l) ==
    /\ loads[l].pc = "cleanup"
    /\ loads' = [loads EXCEPT ![l].pc = "getPage", ![l].i = loads[l].i + 1]
    /\ AppUnchanged

\* The head of the loop at page i: getPage, the canvas and its context, and,
\* with a context, the call of page.render(); without one the page is skipped.
getPage(l) ==
    /\ loads[l].pc = "getPage"
    /\ loads[l].i <= NumPages(loads[l].file)
    /\ IF RenderOutcome(loads[l].file, loads[l].i) = "nocontext"
       THEN loads' = [loads EXCEPT ![l].i = loads[l].i + 1]
       ELSE loads' = [loads EXCEPT ![l].pc = "render",
                                   ![l].held = loads[l].held \cup {loads[l].i}]
    /\ AppUnchanged

\* The render promise of page i settles: rejected, the catch block rethrows;
\* fulfilled, the preview is pushed.
pageRender(l) ==
    /\ loads[l].pc = "render"
    /\ IF RenderOutcome(loads[l].file, loads[l].i) = "throw"
       THEN loads' = [loads EXCEPT ![l].pc = "threw"]
       ELSE loads' = [loads EXCEPT
                ![l].pc = "cleanup",
                ![l].previews = Append(loads[l].previews,
                                       PreviewOf(loads[l].file, loads[l].i))]
    /\ AppUnchanged

\* page.cleanup() and the step to the next page.
pageCleanup(l) ==
    /\ loads[l].pc = "cleanup"
    /\ loads' = [loads EXCEPT ![l].pc = "getPage", ![l].i = loads[l].i + 1,
                              ![l].held = loads[l].held \ {loads[l].i}]
    /\ AppUnchanged

\* return { pageCount, previews }
loadReturn(l) ==
    /\ loads[l].pc = "getPage"
    /\ loads[l].i > NumPages(loads[l].file)
    /\ loads' = [loads EXCEPT ![l].pc = "returned"]
    /\ AppUnchanged

NextRender ==
    \/ \E f \in disk : getDocument(f)
    \/ \E l \in 1..Len(loads) : getPage(l)
    \/ \E l \in 1..Len(loads) : pageRender(l)
    \/ \E l \in 1..Len(loads) : pageCleanup(l)
    \/ \E l \in 1..Len(loads) : loadReturn(l)

SpecRender == InitRender /\ [][NextRender]_vars

(***************************************************************************)
(* Properties.                                                             *)
(***************************************************************************)
\* A page list as the application builds it: no undefined slot, no page twice.
IsPageSet(pages) ==
    /\ \A j \in 1..Len(pages) : pages[j] # Undefined
    /\ \A i, j \in 1..Len(pages) : i # j => pages[i].id # pages[j].id

\* C1: when the download is offered, the output has one page per entry of the
\* list passed to mergeAndDownloadPdf, in list order, and its i-th page is
\* page pageIndex of the i-th entry's own source file.
C1_OutputPagesFromOwnSource ==
    download.clicked =>
        /\ Len(download.pages) = Len(download.items)
        /\ \A j \in 1..Len(download.items) :
              download.pages[j] = PageContent(download.items[j].sourceFile,
                                              download.items[j].pageIndex)

\* The entries handleFileUploadDone(selected) adds to files' for the file f.
NewEntriesOf(f) ==
    {j \in (Len(files) + 1)..Len(files') : files'[j].file = f}

\* The entries handleFileUploadDone(selected) adds to allPages' for file id.
NewPagesOf(id) ==
    {h \in (Len(allPages) + 1)..Len(allPages') : allPages'[h].sourceFileId = id}

\* C2: when an upload of several files ends, a file whose decode or render
\* fails has added nothing, and every other PDF of the batch has its entry in
\* files and its pages at the end of allPages.
C2_OtherFilesStillLoad ==
    [][\A selected \in Selections(disk) :
          handleFileUploadDone(selected) =>
              \A k \in 1..Len(selected) :
                  LET f == selected[k]
                      r == loadPdfAndGetPreviews(f)
                  IN  FileType(f) = "application/pdf" =>
                        IF r.threw
                        THEN NewEntriesOf(f) = {}
                        ELSE \E j \in NewEntriesOf(f) :
                                Cardinality(NewPagesOf(files'[j].id))
                                    = Len(r.previews)]_vars

RECURSIVE ExpectedRefs(_, _)
\* One reference per page of each PDF of the selection from position k on, in
\* selection order and ascending pageIndex.
ExpectedRefs(selected, k) ==
    IF k > Len(selected) THEN <<>>
    ELSE (IF FileType(selected[k]) = "application/pdf"
          THEN [i \in 1..NumPages(selected[k]) |-> <<selected[k], i - 1>>]
          ELSE <<>>)
         \o ExpectedRefs(selected, k + 1)

\* The (source file, pageIndex) of the entries of pages, looked up in fs.
RefsOf(pages, fs) ==
    [j \in 1..Len(pages) |->
        <<FindFile(fs, pages[j].sourceFileId).file, pages[j].pageIndex>>]

\* The export of the list [A2, A0, B0, B1], A being the first loaded file,
\* with 3 pages, and B the second, with 2 pages, outputs the contents
\* [A2, A0, B0, B1].
ScenarioExport ==
    (/\ download.clicked
     /\ Len(download.snapFiles) = 2
     /\ NumPages(download.snapFiles[1].file) = 3
     /\ NumPages(download.snapFiles[2].file) = 2
     /\ Len(download.snapPages) = 4
     /\ [j \in 1..4 |-> <<download.snapPages[j].sourceFileId,
                          download.snapPages[j].pageIndex>>]
          = << <<download.snapFiles[1].id, 2>>, <<download.snapFiles[1].id, 0>>,
               <<download.snapFiles[2].id, 0>>, <<download.snapFiles[2].id, 1>> >>)
    => download.pages
          = << PageContent(download.snapFiles[1].file, 2),
               PageContent(download.snapFiles[1].file, 0),
               PageContent(download.snapFiles[2].file, 0),
               PageContent(download.snapFiles[2].file, 1) >>

\* C3: a successful upload leaves the entries of allPages in place and adds,
\* after them, one reference per page of each loaded file, in selection order
\* and ascending pageIndex; and the export of the list built by loading A
\* (3 pages) and B (2 pages), removePage(1) and movePage(0, right) outputs
\* [A2, A0, B0, B1].
C3_AppendOrderAndScenario ==
    [][/\ \A selected \in Selections(disk) :
             (/\ handleFileUploadDone(selected)
              /\ ~UploadLoop(selected, 1, nextId, <<>>, <<>>).threw) =>
                 /\ Len(allPages') >= Len(allPages)
                 /\ SubSeq(allPages', 1, Len(allPages)) = allPages
                 /\ RefsOf(SubSeq(allPages', Len(allPages) + 1, Len(allPages')),
                           files')
                      = ExpectedRefs(selected, 1)
       /\ ScenarioExport']_vars

\* C4: removePage(i), i an index of the page list, gives a list shorter by one
\* that no longer holds the entry that was at i and holds the others in their
\* order.
C4_RemoveKeepsOthersInOrder ==
    (/\ lastOp.op = "remove"
     /\ IsPageSet(lastOp.before)
     /\ lastOp.index \in 0..(Len(lastOp.before) - 1))
    => /\ Len(allPages) = Len(lastOp.before) - 1
       /\ \A j \in 1..Len(allPages) : allPages[j] # lastOp.before[lastOp.index + 1]
       /\ \A j \in 1..Len(allPages) :
             allPages[j] = IF j <= lastOp.index THEN lastOp.before[j]
                           ELSE lastOp.before[j + 1]

C4_Witness ==
    /\ lastOp.op = "remove"
    /\ IsPageSet(lastOp.before)
    /\ Len(lastOp.before) = 3
    /\ lastOp.index = 1
    /\ Len(allPages) = 2

\* C5: removePage(index) with index >= length ends in an error.
C5_RemoveOutOfRangeFails ==
    (lastOp.op = "remove" /\ lastOp.index >= Len(lastOp.before)) => lastOp.threw

\* The last two calls were movePage(i, left) with 1 <= i < length and then
\* movePage(i - 1, right).
MovedLeftThenRight ==
    /\ prevOp.op = "move" /\ prevOp.direction = "left"
    /\ IsPageSet(prevOp.before)
    /\ prevOp.index >= 1 /\ prevOp.index < Len(prevOp.before)
    /\ lastOp.op = "move" /\ lastOp.direction = "right"
    /\ lastOp.index = prevOp.index - 1

\* C6: movePage(i, left) followed by movePage(i - 1, right), 1 <= i < length,
\* gives back the list as it was before the two.
C6_LeftThenRightRestores ==
    MovedLeftThenRight => allPages = prevOp.before

C6_Witness ==
    /\ MovedLeftThenRight
    /\ Len(prevOp.before) = 3
    /\ lastOp.before # prevOp.before
    /\ allPages = prevOp.before

\* C7: movePage(index, direction), index an index of the page list, swaps the
\* entries at index and at its neighbour and changes no other position; with
\* no neighbour on that side it changes nothing; neither ends in an error.
C7_MoveSwapsNeighboursOnly ==
    (/\ lastOp.op = "move"
     /\ IsPageSet(lastOp.before)
     /\ lastOp.index \in 0..(Len(lastOp.before) - 1))
    => LET i == lastOp.index + 1
           t == IF lastOp.direction = "left" THEN i - 1 ELSE i + 1
       IN  /\ ~lastOp.threw
           /\ Len(allPages) = Len(lastOp.before)
           /\ IF t \in 1..Len(lastOp.before)
              THEN /\ allPages[i] = lastOp.before[t]
                   /\ allPages[t] = lastOp.before[i]
                   /\ \A j \in 1..Len(allPages) :
                         j \notin {i, t} => allPages[j] = lastOp.before[j]
              ELSE allPages = lastOp.before

\* A swap in the middle of the list, then a move of the last page to the
\* right, which changes nothing.
C7_Witness ==
    /\ prevOp.op = "move" /\ IsPageSet(prevOp.before)
    /\ prevOp.index = 1 /\ prevOp.direction = "left"
    /\ lastOp.before # prevOp.before
    /\ lastOp.op = "move" /\ lastOp.direction = "right"
    /\ Len(lastOp.before) = 3 /\ lastOp.index = 2
    /\ allPages = lastOp.before

\* C8: every sourceFileId in allPages is the id of an entry of files.
C8_SourcesRegistered ==
    \A j \in 1..Len(allPages) :
        allPages[j] # Undefined => HasFile(files, allPages[j].sourceFileId)

\* Pages of a file loaded after a clearAll (the first id is gone from files
\* though no upload has failed), one of them moved or removed since.
C8_Witness ==
    /\ allPages # <<>>
    /\ alertMsg = ""
    /\ files[1].id > 1
    /\ edits > 0

\* C9: at most one upload or export is in flight.
C9_OneOperationAtATime ==
    BagCardinality(uploads) + BagCardinality(exports) <= 1

\* What mergeAndDownloadPdf makes of the first n entries of the page list
\* pages with the file list fs.
CompiledPrefix(pages, fs, n) ==
    MergeLoop(PagesToProcess(pages, fs).pages, 1, n, <<>>, <<>>)

\* C10: an export outputs the pages of the allPages and files it was started
\* with, in their order, whatever has changed allPages or files since.
C10_ExportCompilesSnapshot ==
    /\ \A e \in BagToSet(exports) :
          /\ ~PagesToProcess(e.snapPages, e.snapFiles).threw
          /\ e.pos - 1 <= Len(e.snapPages)
          /\ ~CompiledPrefix(e.snapPages, e.snapFiles, e.pos - 1).threw
          /\ e.merged = CompiledPrefix(e.snapPages, e.snapFiles, e.pos - 1).merged
    /\ download.clicked =>
          download.pages = CompiledPrefix(download.snapPages, download.snapFiles,
                                          Len(download.snapPages)).merged

\* A download whose export saw allPages or files change while it ran.
C10_Witness ==
    /\ download.clicked
    /\ download.changed
    /\ Len(download.pages) >= 2

\* C12: no two entries of files hold the same source: a file that is loaded
\* again gets no second entry.
C12_NoSecondEntryForSameSource ==
    \A i, j \in 1..Len(files) : i # j => files[i].file # files[j].file

\* C13: within one call of mergeAndDownloadPdf no source file is read and
\* decoded twice (the cache holds one document per decode).
C13_EachSourceDecodedOnce ==
    \A e \in BagToSet(exports) :
        \A i, j \in 1..Len(e.cache) : i # j => e.cache[i] # e.cache[j]

\* An export past its loop whose list names the same page of the same source
\* twice, with that source decoded once.
C13_Witness ==
    \E e \in BagToSet(exports) :
        /\ e.pos > Len(e.pages)
        /\ \E i, j \in 1..Len(e.pages) : i # j /\ e.pages[i] = e.pages[j]
        /\ Len(e.cache) = 1

\* Every entry of allPages has 0 <= pageIndex < pageCount of its file.
PageIndexInRange ==
    \A j \in 1..Len(allPages) :
        allPages[j] # Undefined =>
            /\ HasFile(files, allPages[j].sourceFileId)
            /\ allPages[j].pageIndex >= 0
            /\ allPages[j].pageIndex
                 < FindFile(files, allPages[j].sourceFileId).pageCount

\* C17: every entry of allPages has 0 <= pageIndex < pageCount of the file it
\* references, and an entry that stays in allPages keeps its sourceFileId and
\* pageIndex.
C17_ReferencesValidAndImmutable ==
    [][/\ PageIndexInRange'
       /\ \A i \in 1..Len(allPages), j \in 1..Len(allPages') :
             allPages'[j].id = allPages[i].id =>
                 /\ allPages'[j].sourceFileId = allPages[i].sourceFileId
                 /\ allPages'[j].pageIndex = allPages[i].pageIndex]_vars

\* Pages moved or removed, then a second file loaded after them.
C17_Witness ==
    /\ edits > 0
    /\ lastOp = NoOp
    /\ Len(files) = 2
    /\ Len(allPages) >= 3
    /\ \E j \in 1..Len(allPages) : allPages[j].pageIndex = 2

\* C19: movePage, whatever the index and the direction, leaves allPages with
\* the same length and the same entries as before, none of them undefined.
C19_MoveIsGapFreePermutation ==
    (lastOp.op = "move" /\ IsPageSet(lastOp.before))
    => /\ Len(allPages) = Len(lastOp.before)
       /\ \A j \in 1..Len(allPages) : allPages[j] # Undefined
       /\ Range(allPages) = Range(lastOp.before)

\* C11: a step in which an export fails (a source missing from files, a source
\* that cannot be decoded, a page that cannot be copied, a failed save) makes
\* and clicks no download link.
C11_FailedExportOffersNoDownload ==
    [][(\/ handleDownload /\ PagesToProcess(allPages, files).threw
        \/ \E e \in BagToSet(exports) :
              \/ mergeCopyPage(e)
                 /\ MergeItem(e.pages[e.pos], e.cache, e.merged).threw
              \/ mergeSave(e, FALSE))
       => download' = download]_vars

\* An export of the page of E, which pdf-lib cannot open, has failed; no link
\* was clicked.
C11_Witness ==
    /\ alertMsg = "Failed to export PDF."
    /\ ~download.clicked
    /\ exports = EmptyBag
    /\ allPages # <<>>
    /\ \A j \in 1..Len(files) : files[j].file = "E"

\* C16: the name of the download ends in .pdf, whatever the case of its
\* letters: a fileName that already ends so is the name of the download, and
\* any other fileName is followed in it by one ".pdf".
HasPdfSuffix(name) ==
    /\ Len(name) >= 4
    /\ name[Len(name) - 3] = "."
    /\ name[Len(name) - 2] \in {"p", "P"}
    /\ name[Len(name) - 1] \in {"d", "D"}
    /\ name[Len(name)] \in {"f", "F"}

C16_DownloadNameEndsInPdf ==
    download.clicked =>
        /\ HasPdfSuffix(download.name)
        /\ IF HasPdfSuffix(download.fileName)
           THEN download.name = download.fileName
           ELSE /\ Len(download.name) = Len(download.fileName) + 4
                /\ SubSeq(download.name, 1, Len(download.fileName))
                       = download.fileName
                /\ SubSeq(download.name, Len(download.fileName) + 1,
                          Len(download.name)) = <<".", "p", "d", "f">>

\* A download was offered under the fileName "x.Pdf", used as it is.
C16_Witness ==
    /\ download.clicked
    /\ download.fileName = <<"x", ".", "P", "d", "f">>
    /\ download.name = download.fileName

\* C14: every file an upload has loadPdfAndGetPreviews decode without error
\* comes back with as many previews as it has pages, the k-th preview being
\* the render of page k.
C14_OnePreviewPerPage ==
    [][\A selected \in Selections(disk) :
          handleFileUploadDone(selected) =>
              \A k \in 1..Len(selected) :
                  LET f == selected[k]
                      r == loadPdfAndGetPreviews(f)
                  IN  (FileType(f) = "application/pdf" /\ ~r.threw) =>
                        /\ Len(r.previews) = r.pageCount
                        /\ \A j \in 1..Len(r.previews) :
                              r.previews[j] = PreviewOf(f, j)]_vars

\* C15: every entry an upload adds to files is of a file all of whose pages
\* rendered, and has exactly pageCount pages added to allPages with it.
C15_LoadAllOrNothingPerFile ==
    [][\A selected \in Selections(disk) :
          handleFileUploadDone(selected) =>
              \A j \in (Len(files) + 1)..Len(files') :
                  /\ \A i \in 1..files'[j].pageCount :
                        RenderOutcome(files'[j].file, i) = "ok"
                  /\ Cardinality(NewPagesOf(files'[j].id))
                        = files'[j].pageCount]_vars

\* C18: in every call of loadPdfAndGetPreviews at most one page holds render
\* resources, and while page i renders it is the only one: the pages before
\* it have been released.
C18_RenderSequential ==
    \A l \in 1..Len(loads) :
        /\ Cardinality(loads[l].held) <= 1
        /\ loads[l].pc = "render" => loads[l].held = {loads[l].i}
        /\ loads[l].pc = "getPage" => loads[l].held = {}

\* Page 2 of a document renders after page 1 was rendered and released.
C18_Witness ==
    \E l \in 1..Len(loads) :
        /\ loads[l].pc = "render"
        /\ loads[l].i = 2
        /\ loads[l].previews = <<PreviewOf(loads[l].file, 1)>>
        /\ loads[l].held = {2}

\* A call of loadPdfAndGetPreviews that has returned or thrown, followed page
\* by page, ends as RenderLoop computes it.
RenderStepsAgree ==
    \A l \in 1..Len(loads) :
        LET r == loadPdfAndGetPreviews(loads[l].file)
        IN  /\ loads[l].pc = "returned" =>
                  ~r.threw /\ r.previews = loads[l].previews
            /\ loads[l].pc = "threw" => r.threw

\* C20: a step that puts a load or an export in flight leaves isLoading true,
\* a step in which one ends, with or without an error, leaves it false, and
\* whenever isLoading is true it is false again later.
C20_BusyIsEventuallyReset ==
    /\ [][(\/ BagCardinality(uploads') > BagCardinality(uploads)
           \/ BagCardinality(exports') > BagCardinality(exports))
          => isLoading']_vars
    /\ [][(\/ BagCardinality(uploads') < BagCardinality(uploads)
           \/ BagCardinality(exports') < BagCardinality(exports))
          => ~isLoading']_vars
    /\ isLoading ~> ~isLoading

\* After a load that succeeded an export has failed; nothing is in flight and
\* isLoading is false.
C20_Witness ==
    /\ alertMsg = "Failed to export PDF."
    /\ files # <<>>
    /\ uploads = EmptyBag
    /\ exports = EmptyBag
    /\ ~isLoading

====
